---- MODULE Spec2Model ----
(***************************************************************************)
(* Model of src/src/Minesweeper.ts: the Minesweeper class, its constructor *)
(* and the generation pipeline start() = generateEmptyMatrix, plantMines,  *)
(* populate, revealFirst (+ recursive revealSurroundings).                 *)
(*                                                                         *)
(* Cell symbols are the very strings the code builds ("|| :zero: ||"),     *)
(* coordinates are 0-indexed as in the code; matrix[x][y] of the code is   *)
(* matrix[x + 1][y + 1] here because TLA+ sequences start at 1.            *)
(***************************************************************************)
EXTENDS Integers, Sequences, FiniteSets, TLC

VARIABLES opts, matrix, safeCells, pc, i, pending, result, text, firstCell,
          rngCalled, planted, calls

vars == <<opts, matrix, safeCells, pc, i, pending, result, text, firstCell,
          rngCalled, planted, calls>>

(* ----------------------------- bounds ---------------------------------- *)
MaxRows == 3
MaxColumns == 3
MaxCells == 9
MaxMines == 2
MaxCalls == 2
RngDenominator == 16

(* ------------------------- program constants --------------------------- *)
DefaultRows == 9
DefaultColumns == 9
DefaultMines == 10

NumberNames ==
  <<"zero", "one", "two", "three", "four", "five", "six", "seven", "eight">>

(* emote names the caller may supply: the default, and two that coincide   *)
(* with a count name                                                       *)
Emotes == {"boom", "zero", "one"}

(* ---------------------------- constructor ------------------------------ *)
(* JavaScript `v || d` on a number: 0 is falsy and is replaced by d        *)
OrDefault(v, d) == IF v = 0 THEN d ELSE v

rows == OrDefault(opts.rows, DefaultRows)
columns == OrDefault(opts.columns, DefaultColumns)
mines == OrDefault(opts.mines, DefaultMines)
emote == opts.emote
spaces == opts.spaces
revealFirstCell == opts.revealFirstCell
zeroFirstCell == opts.zeroFirstCell
returnType == opts.returnType

(* variant: a delimiter of three bars instead of two                       *)
spoilerizeTriple(str) ==
  IF spaces THEN "||| :" \o str \o ": |||" ELSE "|||:" \o str \o ":|||"

spoilerize(str) ==
  IF spaces THEN "|| :" \o str \o ": ||" ELSE "||:" \o str \o ":||"

typesMine == spoilerize(emote)
typesNumbers == [n \in 1..Len(NumberNames) |-> spoilerize(NumberNames[n])]

(* ------------------------- string primitives --------------------------- *)
(* String.prototype.slice(2, -2)                                           *)
Slice2(s) == IF Len(s) <= 4 THEN "" ELSE SubSeq(s, 3, Len(s) - 2)

(* String.prototype.includes("||")                                         *)
IncludesBars(s) == \E k \in 1..(Len(s) - 1) : SubSeq(s, k, k + 1) = "||"

(* the random source returns k / RngDenominator in [0, 1);                 *)
(* Math.floor(rng() * n) is then (k * n) \div RngDenominator               *)
RngValues == 0..(RngDenominator - 1)
FloorMul(k, n) == (k * n) \div RngDenominator

(* every value Math.floor(rng() * n) can take                              *)
Draws(n) == {FloorMul(k, n) : k \in RngValues}

(* ------------------------------ helpers -------------------------------- *)
Cell(m, x, y) == m[x + 1][y + 1]

SetCell(m, x, y, v) == [m EXCEPT ![x + 1][y + 1] = v]

(* row-major list of the coordinates of an r-row grid of `columns` columns *)
Coords(r) ==
  [k \in 1..(r * columns) |-> [x |-> (k - 1) \div columns, y |-> (k - 1) % columns]]

(* ------------------------- generateEmptyMatrix ------------------------- *)
generateEmptyMatrix(m) ==
  m \o [r \in 1..rows |-> [c \in 1..columns |-> typesNumbers[1]]]

(* --------------------------- getNumberOfMines -------------------------- *)
B2N(b) == IF b THEN 1 ELSE 0

(* variant: the bottom right neighbour is not counted                      *)
counterNoBottomRight(m, x, y) ==
  LET hasLeft == y > 0
      hasRight == y < (columns - 1)
      hasTop == x > 0
      hasBottom == x < (rows - 1)
  IN  B2N(hasTop /\ hasLeft /\ Cell(m, x - 1, y - 1) = typesMine)
    + B2N(hasTop /\ Cell(m, x - 1, y) = typesMine)
    + B2N(hasTop /\ hasRight /\ Cell(m, x - 1, y + 1) = typesMine)
    + B2N(hasLeft /\ Cell(m, x, y - 1) = typesMine)
    + B2N(hasRight /\ Cell(m, x, y + 1) = typesMine)
    + B2N(hasBottom /\ hasLeft /\ Cell(m, x + 1, y - 1) = typesMine)
    + B2N(hasBottom /\ Cell(m, x + 1, y) = typesMine)

counter(m, x, y) ==
  LET hasLeft == y > 0
      hasRight == y < (columns - 1)
      hasTop == x > 0
      hasBottom == x < (rows - 1)
  IN  B2N(hasTop /\ hasLeft /\ Cell(m, x - 1, y - 1) = typesMine)
    + B2N(hasTop /\ Cell(m, x - 1, y) = typesMine)
    + B2N(hasTop /\ hasRight /\ Cell(m, x - 1, y + 1) = typesMine)
    + B2N(hasLeft /\ Cell(m, x, y - 1) = typesMine)
    + B2N(hasRight /\ Cell(m, x, y + 1) = typesMine)
    + B2N(hasBottom /\ hasLeft /\ Cell(m, x + 1, y - 1) = typesMine)
    + B2N(hasBottom /\ Cell(m, x + 1, y) = typesMine)
    + B2N(hasBottom /\ hasRight /\ Cell(m, x + 1, y + 1) = typesMine)

getNumberOfMines(m, x, y) ==
  IF Cell(m, x, y) = typesMine
  THEN typesMine
  ELSE typesNumbers[counter(m, x, y) + 1]

(* variant: the coordinate is pushed before the mine test                  *)
pushedEveryCell(m) == Coords(Len(m))

(* the coordinates getNumberOfMines pushes on safeCells while populate     *)
(* maps over the whole matrix, in scan order                               *)
pushedSafeCells(m) ==
  SelectSeq(Coords(Len(m)), LAMBDA c : Cell(m, c.x, c.y) # typesMine)

(* ------------------------------ populate ------------------------------- *)
populate(m) ==
  [x \in 1..Len(m) |-> [y \in 1..Len(m[x]) |-> getNumberOfMines(m, x - 1, y - 1)]]

(* --------------------------- revealSurroundings ------------------------ *)
Max(a, b) == IF a > b THEN a ELSE b
Min(a, b) == IF a < b THEN a ELSE b

isSpoiler(m, x, y) == IncludesBars(Cell(m, x, y))

(* the cells the two nested loops visit, in visiting order                 *)
surroundings(c) ==
  LET xLower == Max(0, c.x - 1)
      yLower == Max(0, c.y - 1)
      xUpper == Min(rows - 1, c.x + 1)
      yUpper == Min(columns - 1, c.y + 1)
  IN  SelectSeq(Coords(rows),
                LAMBDA d : /\ xLower <= d.x /\ d.x <= xUpper
                           /\ yLower <= d.y /\ d.y <= yUpper)

(* variant: the loop body strips without testing isSpoiler                 *)
stripsAlways(m, d) == TRUE

(* whether the loop body strips cell d                                     *)
stripsCell(m, d) == isSpoiler(m, d.x, d.y)

revealedAround(m, c) ==
  LET box == surroundings(c)
      hit == {k \in 1..Len(box) : stripsCell(m, box[k])}
  IN  [x \in 1..Len(m) |-> [y \in 1..Len(m[x]) |->
        IF \E k \in hit : box[k] = [x |-> x - 1, y |-> y - 1]
        THEN Slice2(m[x][y])
        ELSE m[x][y]]]

(* variant: revealSurroundings called with recurse = false                 *)
zeroCellsNotRecursed(m, c) == <<>>

(* the cells the forEach of revealSurroundings recurses into               *)
zeroCellsAround(m, c) ==
  SelectSeq(surroundings(c),
            LAMBDA d : isSpoiler(m, d.x, d.y) /\ Cell(m, d.x, d.y) = typesNumbers[1])

(* ------------------------- getTextRepresentation ----------------------- *)
(* Array.prototype.join                                                    *)
RECURSIVE Join(_, _)
Join(strs, separator) ==
  IF Len(strs) = 0 THEN ""
  ELSE IF Len(strs) = 1 THEN strs[1]
       ELSE strs[1] \o separator \o Join(Tail(strs), separator)

getTextRepresentation(m) ==
  LET separator == IF spaces THEN " " ELSE ""
  IN  Join([r \in 1..Len(m) |-> Join(m[r], separator)], "\n")

(* ------------------------------- state --------------------------------- *)
NoCell == [x |-> -1, y |-> -1]

Init ==
  /\ opts \in [rows : 1..MaxRows, columns : 1..MaxColumns, mines : 0..MaxMines,
               emote : Emotes, spaces : BOOLEAN,
               revealFirstCell : BOOLEAN, zeroFirstCell : BOOLEAN,
               returnType : {"emoji", "code", "matrix"}]
  /\ opts.rows * opts.columns <= MaxCells
  /\ matrix = <<>>
  /\ safeCells = <<>>
  /\ pc = "idle"
  /\ i = 0
  /\ pending = <<>>
  /\ result = "none"
  /\ text = ""
  /\ firstCell = NoCell
  /\ rngCalled = FALSE
  /\ planted = {}
  /\ calls = 0

(* ------------------------------- start --------------------------------- *)
(* variant: < in place of <=                                               *)
tooDenseStrict == rows * columns < mines * 2

tooDense == rows * columns <= mines * 2

(* start(): the size check, then generateEmptyMatrix(); limit is the       *)
(* number of start() calls the caller makes on this instance               *)
Start(limit) ==
  /\ pc \in {"idle", "done"}
  /\ calls < limit
  /\ calls' = calls + 1
  /\ IF tooDense
     THEN /\ result' = "null"
          /\ pc' = "done"
          /\ UNCHANGED <<matrix, i>>
     ELSE /\ matrix' = generateEmptyMatrix(matrix)
          /\ result' = "none"
          /\ i' = 0
          /\ pc' = "plant"
  /\ text' = ""
  /\ UNCHANGED <<opts, safeCells, pending, firstCell, rngCalled, planted>>

(* one iteration of the loop of plantMines(): on a cell that already holds *)
(* the mine symbol i-- undoes the loop's i++, the iteration changes        *)
(* nothing and the loop draws again                                        *)
PlantMines ==
  /\ pc = "plant"
  /\ i < mines
  /\ \E x \in Draws(rows), y \in Draws(columns) :
           IF Cell(matrix, x, y) = typesMine
           THEN UNCHANGED <<matrix, i, planted>>
           ELSE /\ matrix' = SetCell(matrix, x, y, typesMine)
                /\ planted' = planted \cup {[x |-> x, y |-> y]}
                /\ i' = i + 1
  /\ rngCalled' = TRUE
  /\ UNCHANGED <<opts, safeCells, pc, pending, result, text, firstCell, calls>>

(* the loop of plantMines() ends; populate()                               *)
Populate ==
  /\ pc = "plant"
  /\ i >= mines
  /\ matrix' = populate(matrix)
  /\ safeCells' = safeCells \o pushedSafeCells(matrix)
  /\ pc' = "reveal"
  /\ UNCHANGED <<opts, i, pending, result, text, firstCell, rngCalled, planted, calls>>

(* revealFirst() up to its call of revealSurroundings()                    *)
revealFirst ==
  IF ~revealFirstCell
  THEN /\ firstCell' = NoCell
       /\ UNCHANGED <<matrix, pending, rngCalled>>
       /\ pc' = IF pc = "idle" THEN "idle" ELSE "flood"
  ELSE LET zeroCells ==
             SelectSeq(safeCells, LAMBDA c : Cell(matrix, c.x, c.y) = typesNumbers[1])
       IN  IF zeroFirstCell /\ Len(zeroCells) > 0
           THEN \E k \in Draws(Len(zeroCells)) :
                  LET safeCell == zeroCells[k + 1]
                  IN  /\ matrix' = SetCell(matrix, safeCell.x, safeCell.y,
                                           Slice2(Cell(matrix, safeCell.x, safeCell.y)))
                      /\ pending' = <<safeCell>>
                      /\ firstCell' = safeCell
                      /\ rngCalled' = TRUE
                      /\ pc' = "flood"
           ELSE IF Len(safeCells) = 0
                THEN (* safeCells[0] is undefined: reading .x throws *)
                     /\ rngCalled' = TRUE
                     /\ pc' = "threw"
                     /\ UNCHANGED <<matrix, pending, firstCell>>
                ELSE \E k \in Draws(Len(safeCells)) :
                       LET safeCell == safeCells[k + 1]
                       IN  /\ matrix' = SetCell(matrix, safeCell.x, safeCell.y,
                                                Slice2(Cell(matrix, safeCell.x, safeCell.y)))
                           /\ pending' = <<>>
                           /\ firstCell' = safeCell
                           /\ rngCalled' = TRUE
                           /\ pc' = "flood"

(* start() calls revealFirst() after populate()                            *)
RevealFirst ==
  /\ pc = "reveal"
  /\ revealFirst
  /\ UNCHANGED <<opts, safeCells, i, result, text, planted, calls>>

(* the caller invokes the public method revealFirst() on a new instance,   *)
(* before start() has run                                                  *)
RevealFirstEarly ==
  /\ pc = "idle"
  /\ calls = 0
  /\ revealFirst
  /\ UNCHANGED <<opts, safeCells, i, result, text, planted, calls>>

(* one call of revealSurroundings(c, true): the next pending cell is the   *)
(* argument, its zero cells are recursed into before the remaining ones    *)
RevealSurroundings ==
  /\ pc = "flood"
  /\ pending # <<>>
  /\ LET c == Head(pending)
     IN  /\ matrix' = revealedAround(matrix, c)
         /\ pending' = zeroCellsAround(matrix, c) \o Tail(pending)
  /\ UNCHANGED <<opts, safeCells, pc, i, result, text, firstCell, rngCalled, planted, calls>>

(* the triple-backquote fence of the "code" return type; a TLA+ string     *)
(* cannot hold a backquote, so each one is written as a single quote       *)
Fence == "'''"

(* revealFirst() has returned; start() returns the field in the form       *)
(* returnType asks for: result is the kind of value returned, text the     *)
(* string returned for "emoji" and "code" ("matrix" returns this.matrix)   *)
Return ==
  /\ pc = "flood"
  /\ pending = <<>>
  /\ result' = returnType
  /\ text' = CASE returnType = "emoji" -> getTextRepresentation(matrix)
            [] returnType = "code" -> Fence \o getTextRepresentation(matrix) \o Fence
            [] returnType = "matrix" -> ""
  /\ pc' = "done"
  /\ UNCHANGED <<opts, matrix, safeCells, i, pending, firstCell, rngCalled, planted, calls>>

Pipeline ==
  \/ PlantMines
  \/ Populate
  \/ RevealFirst
  \/ RevealSurroundings
  \/ Return

(* one start() on a freshly constructed instance                           *)
NextStart ==
  \/ Start(1)
  \/ Pipeline

(* ... and the caller may invoke revealFirst() on its own before it        *)
Next ==
  \/ NextStart
  \/ RevealFirstEarly

Spec == Init /\ [][Next]_vars

(* the same instance, built with the default emote, is started again, up   *)
(* to MaxCalls times                                                       *)
RepeatInit == Init /\ opts.emote = "boom"

NextRepeat ==
  \/ Start(MaxCalls)
  \/ Pipeline

RepeatSpec == RepeatInit /\ [][NextRepeat]_vars

(* the caller starts the instance, the code runs on, and the random source *)
(* keeps eventually drawing each cell                                      *)
FairSpec ==
  /\ Init
  /\ [][NextStart]_vars
  /\ WF_vars(Start(1))
  /\ WF_vars(PlantMines)
  /\ WF_vars(Populate)
  /\ WF_vars(RevealFirst)
  /\ WF_vars(RevealSurroundings)
  /\ WF_vars(Return)

(* ======================= properties of the program ===================== *)
(* coordinates of the cells of the current matrix                          *)
FieldCells ==
  {[x |-> x, y |-> y] : x \in 0..(Len(matrix) - 1), y \in 0..(columns - 1)}

Abs(n) == IF n < 0 THEN -n ELSE n

(* Chebyshev distance 1                                                    *)
Adjacent(c, d) == c # d /\ Abs(c.x - d.x) <= 1 /\ Abs(c.y - d.y) <= 1

(* the cells plantMines marked, and the number of them around c            *)
MineCells == planted
InField(d) == d.x \in 0..(Len(matrix) - 1) /\ d.y \in 0..(columns - 1)
MooreCount(c) == Cardinality({d \in MineCells : InField(d) /\ Adjacent(c, d)})
ZeroCell(c) == c \in FieldCells /\ c \notin MineCells /\ MooreCount(c) = 0

Unmasked(c) == ~isSpoiler(matrix, c.x, c.y)
UnmaskedCells == {c \in FieldCells : Unmasked(c)}

(* s without the characters of the wrapper                                 *)
RECURSIVE Underlying(_)
Underlying(s) ==
  IF Len(s) = 0 THEN ""
  ELSE IF SubSeq(s, 1, 1) \in {"|", " ", ":"}
       THEN Underlying(SubSeq(s, 2, Len(s)))
       ELSE SubSeq(s, 1, 1) \o Underlying(SubSeq(s, 2, Len(s)))

Returned == pc = "done" /\ result \in {"emoji", "code", "matrix"}
Populated == pc \in {"reveal", "flood"} \/ Returned

(* ---- C1 ---- *)
(* C1: whenever the supplied rows H >= 1, columns W >= 1 and mines M >= 0  *)
(* satisfy H*W > 2*M, start() on a fresh instance returns a field of H     *)
(* rows by W columns with exactly M cells holding the mine value.          *)
C1_SuppliedSizeAndMines ==
  (pc = "done" /\ opts.rows * opts.columns > 2 * opts.mines) =>
     /\ result \in {"emoji", "code", "matrix"}
     /\ Len(matrix) = opts.rows
     /\ \A x \in 1..Len(matrix) : Len(matrix[x]) = opts.columns
     /\ Cardinality({c \in FieldCells : Cell(matrix, c.x, c.y) = typesMine}) = opts.mines

(* ---- C2 ---- *)
(* C2: once start() has been called with M >= 1 and H*W <= 2*M it has      *)
(* returned null, the grid and the SafeCell list are still empty and the   *)
(* random source has not been called.                                      *)
C2_TooDenseReturnsNull ==
  (calls >= 1 /\ opts.mines >= 1 /\ opts.rows * opts.columns <= 2 * opts.mines) =>
     /\ pc = "done"
     /\ result = "null"
     /\ matrix = <<>>
     /\ safeCells = <<>>
     /\ ~rngCalled

C2_Witness ==
  /\ pc = "done"
  /\ calls = 1
  /\ opts.mines >= 1
  /\ opts.rows * opts.columns = 2 * opts.mines
  /\ result = "null"

(* ---- C3 ---- *)
(* C3: in the populated grid, and so in the field start() returns, every   *)
(* cell placement did not mine carries (masked or unmasked) the count of   *)
(* mined cells among its Moore neighbours inside the grid, that count is   *)
(* in 0..8, and every mined cell carries the mine marker.                  *)
C3_CountsAreExact ==
  Populated =>
    \A c \in FieldCells :
      IF c \in MineCells
      THEN Cell(matrix, c.x, c.y) = typesMine
      ELSE LET n == MooreCount(c)
               symbol == spoilerize(NumberNames[n + 1])
           IN  /\ n \in 0..8
               /\ Cell(matrix, c.x, c.y) \in {symbol, Slice2(symbol)}

C3_Witness ==
  /\ Returned
  /\ \E c \in FieldCells \ MineCells : MooreCount(c) >= 2
  /\ \E c \in FieldCells \ MineCells : MooreCount(c) = 0

(* ---- C4 ---- *)
(* zero cells connected to the cells of S through adjacent zero cells      *)
RECURSIVE ZeroRegion(_)
ZeroRegion(S) ==
  LET T == S \cup {d \in FieldCells : ZeroCell(d) /\ \E c \in S : Adjacent(c, d)}
  IN  IF T = S THEN S ELSE ZeroRegion(T)

Opening(origin) ==
  LET region == ZeroRegion({origin})
  IN  region \cup {d \in FieldCells : \E c \in region : Adjacent(c, d)}

(* C4: with revealFirstCell and zeroFirstCell on and a zero cell in the    *)
(* populated grid, after revealFirst() the origin is an unmasked zero cell *)
(* and the unmasked cells are exactly the zero cells connected to the      *)
(* origin through adjacent zero cells plus the cells adjacent to those.    *)
C4_FloodFillIsExact ==
  (/\ Returned
   /\ revealFirstCell
   /\ zeroFirstCell
   /\ \E c \in FieldCells : ZeroCell(c)) =>
     /\ ZeroCell(firstCell)
     /\ Cell(matrix, firstCell.x, firstCell.y) = Slice2(typesNumbers[1])
     /\ Unmasked(firstCell)
     /\ UnmaskedCells = Opening(firstCell)

C4_Witness ==
  /\ Returned
  /\ revealFirstCell
  /\ zeroFirstCell
  /\ Cardinality(ZeroRegion({firstCell})) >= 2
  /\ UnmaskedCells # FieldCells \ MineCells
  /\ Cardinality(UnmaskedCells) > Cardinality(ZeroRegion({firstCell}))

(* ---- C5 ---- *)
(* C5: with revealFirstCell on and zeroFirstCell off or no zero cell in    *)
(* the populated grid, after start() exactly one cell is unmasked, it is   *)
(* a cell placement did not mine and shows its count, and it is the        *)
(* coordinate revealFirst() returned.                                      *)
C5_SingleSafeReveal ==
  (/\ Returned
   /\ revealFirstCell
   /\ (~zeroFirstCell \/ ~\E c \in FieldCells : ZeroCell(c))) =>
     /\ UnmaskedCells = {firstCell}
     /\ firstCell \in FieldCells \ MineCells
     /\ Cell(matrix, firstCell.x, firstCell.y) =
          Slice2(spoilerize(NumberNames[MooreCount(firstCell) + 1]))

C5_Witness ==
  /\ Returned
  /\ revealFirstCell
  /\ zeroFirstCell
  /\ ~\E c \in FieldCells : ZeroCell(c)
  /\ UnmaskedCells = {firstCell}
  /\ MineCells # {}

(* ---- C6 ---- *)
SymbolNames == {emote} \cup {NumberNames[n] : n \in 1..Len(NumberNames)}

(* what slice(2, -2) leaves of the wrapped name                            *)
Stripped(name) == IF spaces THEN " :" \o name \o ": " ELSE ":" \o name \o ":"

(* C6 as stated: for every symbol name and either spacing flag, stripping  *)
(* 2 characters from each end of the wrapped symbol leaves exactly         *)
(* :<name>: and nothing else.                                              *)
C6_StripLeavesBareToken ==
  \A name \in SymbolNames : Slice2(spoilerize(name)) = ":" \o name \o ":"

(* C6 amended: stripping 2 characters from each end removes exactly the    *)
(* two "||" delimiters: it leaves :<name>: when spacing is off and         *)
(* :<name>: with one space on each side when spacing is on; the result     *)
(* never includes "||", and every cell of the grid is a wrapped symbol or  *)
(* such a stripped one.                                                    *)
C6_StripRemovesBars ==
  LET maskedSymbols == {spoilerize(name) : name \in SymbolNames}
      strippedSymbols == {Slice2(s) : s \in maskedSymbols}
  IN  /\ \A name \in SymbolNames : Slice2(spoilerize(name)) = Stripped(name)
      /\ \A s \in strippedSymbols : ~IncludesBars(s)
      /\ \A c \in FieldCells :
           Cell(matrix, c.x, c.y) \in maskedSymbols \cup strippedSymbols

C6_Witness ==
  /\ Returned
  /\ spaces
  /\ \E c \in UnmaskedCells : Cell(matrix, c.x, c.y) = " :one: "

(* ---- C7 ---- *)
(* C7: every start() of a sequence of calls on one instance returns a      *)
(* field of exactly H rows by W columns with exactly M mined cells, and    *)
(* the SafeCell list then holds each unmined coordinate exactly once.      *)
C7_NoCarryOver ==
  Returned =>
     /\ Len(matrix) = rows
     /\ \A x \in 1..Len(matrix) : Len(matrix[x]) = columns
     /\ Cardinality(MineCells) = mines
     /\ Len(safeCells) = Cardinality(FieldCells \ MineCells)
     /\ {safeCells[k] : k \in 1..Len(safeCells)} = FieldCells \ MineCells

(* ---- C8 ---- *)
(* C8: for every mine-symbol name and either spacing flag, under a fair    *)
(* random source mine placement, once begun, ends with exactly M distinct  *)
(* mined cells and start() returns the field.                              *)
C8_StartReturns ==
  [](pc = "plant" => <>(Returned /\ Cardinality(MineCells) = mines))

(* ---- C9 ---- *)
OneWayStep ==
  pc \in {"reveal", "flood"} =>
    /\ Len(matrix') = Len(matrix)
    /\ \A c \in FieldCells :
         Cell(matrix', c.x, c.y) # Cell(matrix, c.x, c.y) =>
           /\ isSpoiler(matrix, c.x, c.y)
           /\ Cell(matrix', c.x, c.y) = Slice2(Cell(matrix, c.x, c.y))
           /\ ~isSpoiler(matrix', c.x, c.y)
           /\ Underlying(Cell(matrix', c.x, c.y)) = Underlying(Cell(matrix, c.x, c.y))

(* C9: in every step of the reveal phase a cell that changes was masked,   *)
(* becomes its own symbol stripped once, is then unmasked and keeps its    *)
(* underlying name; an unmasked cell never changes again.                  *)
C9_MaskingOneWay == [][OneWayStep]_vars

C9_Witness ==
  /\ pc = "flood"
  /\ pending # <<>>
  /\ Cardinality(UnmaskedCells) >= 4
  /\ \E c \in UnmaskedCells : c # firstCell /\ ZeroCell(c)

(* ---- C10 ---- *)
(* C10: with revealFirstCell on and an empty SafeCell list, revealFirst()  *)
(* completes without a fault and leaves the grid as it was.                *)
C10_EmptySafeCellsGuarded ==
  (revealFirstCell /\ Len(safeCells) = 0) => pc # "threw"
====
